---- MODULE Spec2Model ----
(***************************************************************************)
(* Cascade propagation of bongo (cascade.go, collection.go, resultset.go)  *)
(* over an abstract document store.  The application thread calls          *)
(* Collection.Save and Collection.DeleteDocument; each call starts a       *)
(* goroutine running CascadeSave or CascadeDelete, whose store operations  *)
(* interleave with the application and with each other.                    *)
(***************************************************************************)
EXTENDS Integers, Sequences, FiniteSets, TLC

VARIABLES
    db,       \* the store: collection name -> (identifier -> document)
    inst,     \* the application's document instances (Go values behind pointers)
    app,      \* the application thread: position inside Save / DeleteDocument
    tasks,    \* goroutine slots: CascadeSave / CascadeDelete runs
    crashed,  \* an unrecovered panic ended the process
    faulty,   \* whether store operations may fail in this behaviour
    calls,    \* Save / DeleteDocument calls made so far
    proj      \* a call of MapFromCascadeProperties: its paths, its map, its position

vars == <<db, inst, app, tasks, crashed, faulty, calls, proj>>

(* ---------------------------------------------------------------- bounds *)

MaxTasks == 2
MaxCalls == 2
MaxDepth == 4
MaxPaths == 3

(* ------------------------------------------------------------- constants *)

REL_MANY == 0
REL_ONE == 1

\* a RelType that is neither of the two
RelInvalid == 2

\* primitive.ObjectID's zero value (id.IsZero())
NilID == 0

\* the two owner documents of collection "parents"
ParentIDs == {1, 2}

\* the application's document instances
Docs == {"child", "sub", "hooked"}

\* primitive.NewObjectID(): a fresh identifier per instance
NewObjectID(d) ==
    CASE d = "child" -> 3 [] d = "sub" -> 4 [] d = "gen" -> 6 [] d = "cyc" -> 7 [] OTHER -> 5

\* the collection each instance is saved to
CollOf(d) == CASE d = "child" -> "children" [] d = "sub" -> "subchildren" [] OTHER -> "tests"

(* ----------------------------------------------------------------- values *)

\* BSON null (Go nil in an update document)
Null == [null |-> TRUE]

\* SubChildRef{} and ChildRef built by the GetCascade methods
ZeroSub == [ID |-> NilID, Foo |-> ""]

SubChildRef(s) == [ID |-> s.ID, Foo |-> s.Foo]

ChildRef(c) == [ID |-> c.ID, Name |-> c.Name, SubChild |-> c.SubChild]

\* &Child{}: the Instance prototype of SubChild's config
ZeroChild ==
    [kind |-> "Child", idField |-> "ID", ID |-> NilID, exists |-> FALSE,
     ParentID |-> NilID, Name |-> "", SubChild |-> ZeroSub, ChildProp |-> "",
     orig |-> [set |-> FALSE]]

(* ------------------------------------------------------------------ store *)

\* the value of key k in document doc stored under identifier i
FieldOf(i, doc, k) ==
    IF k \in {"_id", "_ID"} THEN i
    ELSE IF k \in DOMAIN doc THEN doc[k] ELSE Null

\* a bson.M selector as a sequence of [k, v]; every pair must match
Matches(i, doc, q) == \A j \in 1..Len(q) : FieldOf(i, doc, q[j].k) = q[j].v

Matching(coll, q) == {i \in DOMAIN db[coll] : Matches(i, db[coll][i], q)}

\* an array entry matches a ReferenceQuery when every named field agrees
EntryField(e, name) ==
    IF name \in {"_id", "_ID"} THEN e.ID
    ELSE IF name \in DOMAIN e THEN e[name] ELSE Null

MatchesRef(e, rq) == \A j \in 1..Len(rq) : EntryField(e, rq[j].BsonName) = rq[j].Value

ArrayOf(doc, f) == IF f \in DOMAIN doc THEN doc[f] ELSE <<>>

Keep(e, rq) == ~MatchesRef(e, rq)

RECURSIVE Pulled(_, _)
Pulled(arr, rq) ==
    IF arr = <<>> THEN <<>>
    ELSE IF Keep(Head(arr), rq) THEN <<Head(arr)>> \o Pulled(Tail(arr), rq)
         ELSE Pulled(Tail(arr), rq)

\* one update document applied to one stored document
ApplySet(doc, m) ==
    [f \in DOMAIN doc \cup DOMAIN m |-> IF f \in DOMAIN m THEN m[f] ELSE doc[f]]

ApplyPull(doc, f, rq) ==
    IF f \in DOMAIN doc THEN [doc EXCEPT ![f] = Pulled(@, rq)] ELSE doc

ApplyPush(doc, f, v) ==
    [g \in DOMAIN doc \cup {f} |-> IF g = f THEN Append(ArrayOf(doc, f), v) ELSE doc[g]]

Apply(doc, u) ==
    CASE u.op = "$set"  -> ApplySet(doc, u.m)
      [] u.op = "$pull" -> ApplyPull(doc, u.f, u.rq)
      [] u.op = "$push" -> ApplyPush(doc, u.f, u.v)

\* a faulty variant: the filter is ignored, every document gets the update
UpdateAll(coll, q, u) ==
    [db EXCEPT ![coll] = [i \in DOMAIN db[coll] |-> Apply(db[coll][i], u)]]

\* mongo.Collection.UpdateMany: every document matching q gets the update
UpdateMany(coll, q, u) ==
    [db EXCEPT ![coll] =
        [i \in DOMAIN db[coll] |->
            IF Matches(i, db[coll][i], q) THEN Apply(db[coll][i], u) ELSE db[coll][i]]]

(* -------------------------------------------------------------- documents *)

\* doc.(CascadingDocument): the types that define GetCascade
Cascading(doc) == doc.kind \in {"Child", "SubChild", "Generic", "CycA", "CycB", "Validated"}

\* reflections.GetField(doc, name) succeeds when the struct has that field;
\* a type embedding DocumentBase has ID, a type declaring its own key has Id
HasField(doc, name) == doc.idField = name

\* a faulty variant: the live value is compared with the zero value
ModifiedSinceZero(doc, field) ==
    doc.orig.set /\ field \in DOMAIN doc.orig /\ doc[field] # NilID

\* a faulty variant: Reset() captures zero values instead of the live ones
ResetZero(doc) == [doc EXCEPT !.orig = [set |-> TRUE, ParentID |-> NilID]]

\* the diff tracker of an instance: the values captured at the last Reset()
Modified(doc, field) ==
    /\ doc.orig.set
    /\ field \in DOMAIN doc.orig
    /\ doc[field] # doc.orig[field]

GetOriginalValue(doc, field) ==
    IF doc.orig.set /\ field \in DOMAIN doc.orig
    THEN [found |-> TRUE, value |-> doc.orig[field]]
    ELSE [found |-> FALSE, value |-> NilID]

Reset(doc) == [doc EXCEPT !.orig = [set |-> TRUE, ParentID |-> doc.ParentID]]

Str(s) == [str |-> s]

Config(coll, rel, through, query, props, data) ==
    [Collection |-> coll, RelType |-> rel, ThroughProp |-> through,
     Query |-> query, OldQuery |-> <<>>, Nest |-> FALSE, Properties |-> props,
     Data |-> data, Instance |-> Null, RemoveOnly |-> FALSE,
     ReferenceQuery |-> <<>>]

RefProperties == <<"_ID", "name", "subChild.foo", "subChild._ID">>

\* Child.GetCascade
ChildCascade(c) ==
    LET query == <<[k |-> "_ID", v |-> c.ParentID]>>
        cascadeSingle == Config("parents", REL_ONE, "child", query, RefProperties, ChildRef(c))
        cascadeCopy == Config("parents", REL_ONE, "", query, <<"childProp">>,
                              [childProp |-> Str(c.ChildProp)])
        cascadeMulti == Config("parents", REL_MANY, "children", query, RefProperties, ChildRef(c))
        orig == GetOriginalValue(c, "ParentID")
        old == IF Modified(c, "ParentID") /\ orig.found
               THEN <<[k |-> "_ID", v |-> orig.value]>>
               ELSE <<>>
    IN  << [cascadeSingle EXCEPT !.OldQuery = old],
           [cascadeMulti EXCEPT !.OldQuery = old],
           [cascadeCopy EXCEPT !.OldQuery = old] >>

\* SubChild.GetCascade
SubChildCascade(s) ==
    << [Config("children", REL_ONE, "subChild", <<[k |-> "_ID", v |-> s.ChildID]>>,
               <<"_ID", "foo">>, SubChildRef(s))
        EXCEPT !.Nest = TRUE, !.Instance = ZeroChild] >>

\* a cascading type whose GetCascade returns the configs the instance was
\* built with, each carrying a copy of the instance as Data
GenRef(g) == [ID |-> g.ID, Name |-> g.Name]

GenData(g, conf) ==
    IF conf.RelType = REL_ONE /\ conf.ThroughProp = ""
    THEN [childProp |-> Str(g.Name)]
    ELSE GenRef(g)

GenCascade(g) == [k \in 1..Len(g.confs) |-> [g.confs[k] EXCEPT !.Data = GenData(g, g.confs[k])]]

\* two cascading types whose configs nest into each other: the documents of
\* type A are embedded in "parents", whose documents are embedded in "tests"
ZeroCyc(kind) == [kind |-> kind, idField |-> "Id", ID |-> NilID, exists |-> FALSE, Name |-> ""]

CycCascade(c) ==
    LET target == IF c.kind = "CycA" THEN "parents" ELSE "tests"
        other == IF c.kind = "CycA" THEN "CycB" ELSE "CycA"
    IN  << [Config(target, REL_ONE, "child", <<>>, <<"_ID">>, GenRef(c))
            EXCEPT !.Nest = TRUE, !.Instance = ZeroCyc(other)] >>

\* a cascading type with a Validate method and a BeforeSave hook: its one
\* config embeds the document in parent 1
ValidatedCascade(v) ==
    <<Config("parents", REL_ONE, "child", <<[k |-> "_ID", v |-> 1]>>, <<"_ID", "name">>,
             GenRef(v))>>

GetCascade(doc) ==
    CASE doc.kind = "Child" -> ChildCascade(doc)
      [] doc.kind = "Validated" -> ValidatedCascade(doc)
      [] doc.kind = "SubChild" -> SubChildCascade(doc)
      [] doc.kind = "Generic" -> GenCascade(doc)
      [] doc.kind \in {"CycA", "CycB"} -> CycCascade(doc)
      [] OTHER -> <<>>

\* a faulty variant: a document without GetCascade is cascaded by a default config
ToCascadeAny(doc) ==
    IF Cascading(doc) THEN GetCascade(doc)
    ELSE <<Config("parents", REL_ONE, "child", <<[k |-> "_ID", v |-> 1]>>, <<"_ID">>,
                  [ID |-> doc.ID])>>

\* if conv, ok := doc.(CascadingDocument); ok { toCascade := conv.GetCascade(..) }
ToCascade(doc) == IF Cascading(doc) THEN GetCascade(doc) ELSE <<>>

\* the document written by the primary upsert of an instance
ToDoc(doc) ==
    CASE doc.kind = "Child" ->
            [parentid |-> doc.ParentID, name |-> doc.Name,
             subChild |-> doc.SubChild, childprop |-> Str(doc.ChildProp)]
      [] doc.kind = "SubChild" -> [foo |-> doc.Foo, childid |-> doc.ChildID]
      [] OTHER -> [name |-> doc.Name]

(* --------------------------------------------------------- update documents *)

Range(seq) == {seq[j] : j \in 1..Len(seq)}

\* a faulty variant: the cleanup always names ThroughProp, empty or not
ClearUpdateThrough(conf) == [op |-> "$set", m |-> [f \in {conf.ThroughProp} |-> Null]]

\* $set of ThroughProp, or of every one of Properties, to nil
ClearUpdate(conf) ==
    [op |-> "$set",
     m  |-> IF conf.ThroughProp # ""
            THEN [f \in {conf.ThroughProp} |-> Null]
            ELSE [f \in Range(conf.Properties) |-> Null]]

\* a faulty variant: the $pull names no array of the owner
PullUpdateElsewhere(conf, rq) == [op |-> "$pull", f |-> "", rq |-> rq]

\* $pull of the entries matching the reference query
PullUpdate(conf, rq) == [op |-> "$pull", f |-> conf.ThroughProp, rq |-> rq]

\* a faulty variant: Data's fields always go to the root of the owner
SetUpdateRoot(conf) == [op |-> "$set", m |-> conf.Data]

\* $set of ThroughProp to Data, or of Data's fields at the root
SetUpdate(conf) ==
    [op |-> "$set",
     m  |-> IF conf.ThroughProp # ""
            THEN [f \in {conf.ThroughProp} |-> conf.Data]
            ELSE conf.Data]

PushUpdate(conf) == [op |-> "$push", f |-> conf.ThroughProp, v |-> conf.Data]

\* conf.ReferenceQuery, defaulted to the document's identifier when empty
DefaultRef(conf, id) ==
    IF Len(conf.ReferenceQuery) = 0
    THEN <<[BsonName |-> "_id", Value |-> id]>>
    ELSE conf.ReferenceQuery

(* ------------------------------------------------------------- goroutines *)

Slots == 1..MaxTasks

IdleTask ==
    [st |-> "idle", kind |-> "none", src |-> "none", stack |-> <<>>, ret |-> "none",
     primary |-> "none", solo |-> FALSE, last |-> "ok"]

\* one activation of CascadeSave / CascadeDelete: the document it runs on (a
\* pointer to an application instance, or the goroutine's own conf.Instance),
\* the configs GetCascade returned, the config in progress and the position
Frame(doc) ==
    [doc |-> doc, confs |-> <<>>, k |-> 0, pc |-> "get", rq |-> <<>>, cur |-> <<>>]

Top(stack) == stack[Len(stack)]

Pop(stack) == SubSeq(stack, 1, Len(stack) - 1)

SetTop(T, fr) == [T EXCEPT !.stack = Append(Pop(T.stack), fr)]

DocOf(fr) == IF "ptr" \in DOMAIN fr.doc THEN inst[fr.doc.ptr] ELSE fr.doc.val

Conf(fr) == fr.confs[fr.k]

\* a faulty variant: the update on OldQuery is left out
FirstPcSkipOld(conf) == IF conf.RelType = REL_ONE THEN "new" ELSE "pull"

\* a faulty variant: the switch has no default, any other RelType runs as REL_MANY
FirstPcNoDefault(conf) ==
    IF Len(conf.OldQuery) > 0 THEN "old"
    ELSE IF conf.RelType = REL_ONE THEN "new" ELSE "pull"

\* the first store operation of cascadeSaveWithConfig for a config
FirstPc(conf) ==
    IF conf.RelType \notin {REL_ONE, REL_MANY} THEN "bad"
    ELSE IF Len(conf.OldQuery) > 0 THEN "old"
    ELSE IF conf.RelType = REL_ONE THEN "new" ELSE "pull"

\* the goroutine returns ret from its outermost CascadeSave / CascadeDelete
Finished(T, ret) == [IdleTask EXCEPT !.st = "done", !.ret = ret, !.last = T.last]

\* ResultSet.Next(doc): advances the cursor and marks doc as not new; the
\* stored document is not decoded into doc
ResultSetNext(doc, stored) == [doc EXCEPT !.exists = TRUE]

RECURSIVE Advance(_, _)
RECURSIVE Loop(_, _)

\* the loop over toCascade moves to the next config, or CascadeSave returns nil
\* to its caller, which is the results.Next loop of the enclosing CascadeSave
Advance(T, store) ==
    LET fr == Top(T.stack) IN
    IF fr.k < Len(fr.confs)
    THEN SetTop(T, [fr EXCEPT !.k = fr.k + 1, !.pc = FirstPc(fr.confs[fr.k + 1]),
                              !.rq = <<>>, !.cur = <<>>])
    ELSE IF Len(T.stack) = 1 THEN Finished(T, "nil")
         ELSE Loop([T EXCEPT !.stack = Pop(T.stack)], store)

\* a faulty variant with cycle detection: no nested CascadeSave on a type that
\* an enclosing CascadeSave is already running on
LoopVisited(T, store) ==
    LET fr == Top(T.stack)
        visited == {DocOf(T.stack[j]).kind : j \in 1..Len(T.stack)}
    IN  IF fr.cur = <<>> \/ Conf(fr).Instance.kind \in visited
        THEN Advance(SetTop(T, [fr EXCEPT !.cur = <<>>]), store)
        ELSE LET conf == Conf(fr)
                 doc == ResultSetNext(conf.Instance, store[conf.Collection][Head(fr.cur)])
             IN  [T EXCEPT !.stack =
                     Append(Append(Pop(T.stack), [fr EXCEPT !.cur = Tail(fr.cur)]),
                            Frame([val |-> doc]))]

\* for results.Next(conf.Instance) { CascadeSave(conf.Collection, conf.Instance) }
Loop(T, store) ==
    LET fr == Top(T.stack) IN
    IF fr.cur = <<>> THEN Advance(T, store)
    ELSE LET conf == Conf(fr)
             doc == ResultSetNext(conf.Instance, store[conf.Collection][Head(fr.cur)])
         IN  [T EXCEPT !.stack =
                 Append(Append(Pop(T.stack), [fr EXCEPT !.cur = Tail(fr.cur)]),
                        Frame([val |-> doc]))]

\* a faulty variant: the error of cascadeSaveWithConfig is dropped
AfterConfigIgnoreErr(T, ok, store) ==
    IF Conf(Top(T.stack)).Nest THEN SetTop(T, [Top(T.stack) EXCEPT !.pc = "find"])
    ELSE Advance(T, store)

\* cascadeSaveWithConfig returned: an error ends CascadeSave (and every
\* enclosing CascadeSave); otherwise the nested cascade or the next config
AfterConfig(T, ok, store) ==
    IF ~ok THEN Finished(T, "error")
    ELSE IF Conf(Top(T.stack)).Nest THEN SetTop(T, [Top(T.stack) EXCEPT !.pc = "find"])
    ELSE Advance(T, store)

\* the store operations may fail only in a faulty behaviour
Outcomes == IF faulty THEN BOOLEAN ELSE {TRUE}

\* bookkeeping: the outcome of the store call goroutine T has just issued
Issued(T, ok) == [T EXCEPT !.last = IF ok THEN "ok" ELSE "fail"]

RECURSIVE SortedSeq(_)
SortedSeq(S) ==
    IF S = {} THEN <<>>
    ELSE LET m == CHOOSE x \in S : \A y \in S : x <= y
         IN  <<m>> \o SortedSeq(S \ {m})

Running(t, kind, pc) ==
    /\ ~crashed
    /\ tasks[t].st = "run"
    /\ tasks[t].kind = kind
    /\ Top(tasks[t].stack).pc = pc

\* CascadeSave: the type assertion and GetCascade
SaveGetCascade(t) ==
    /\ Running(t, "save", "get")
    /\ LET T == tasks[t]
           fr == Top(T.stack)
           confs == ToCascade(DocOf(fr))
       IN  tasks' = [tasks EXCEPT ![t] = Advance(SetTop(T, [fr EXCEPT !.confs = confs]), db)]
    /\ UNCHANGED <<db, inst, app, crashed, faulty, calls, proj>>

\* a faulty variant: an error of the update on OldQuery is returned at once
SaveOldChecked(t) ==
    /\ Running(t, "save", "old")
    /\ \E ok \in Outcomes :
        LET T == Issued(tasks[t], ok)
            fr == Top(T.stack)
            conf == Conf(fr)
            rq == DefaultRef(conf, DocOf(fr).ID)
            u == IF conf.RelType = REL_ONE THEN ClearUpdate(conf) ELSE PullUpdate(conf, rq)
            store == IF ok THEN UpdateMany(conf.Collection, conf.OldQuery, u) ELSE db
        IN  /\ db' = store
            /\ tasks' = [tasks EXCEPT ![t] =
                  IF conf.RemoveOnly \/ ~ok THEN AfterConfig(T, ok, store)
                  ELSE SetTop(T, [fr EXCEPT !.rq = rq,
                         !.pc = IF conf.RelType = REL_ONE THEN "new" ELSE "pull"])]
    /\ UNCHANGED <<inst, app, crashed, faulty, calls, proj>>

\* cascadeSaveWithConfig: the update on OldQuery
SaveOld(t) ==
    /\ Running(t, "save", "old")
    /\ \E ok \in Outcomes :
        LET T == Issued(tasks[t], ok)
            fr == Top(T.stack)
            conf == Conf(fr)
            rq == DefaultRef(conf, DocOf(fr).ID)
            u == IF conf.RelType = REL_ONE THEN ClearUpdate(conf) ELSE PullUpdate(conf, rq)
            store == IF ok THEN UpdateMany(conf.Collection, conf.OldQuery, u) ELSE db
        IN  /\ db' = store
            /\ tasks' = [tasks EXCEPT ![t] =
                  IF conf.RemoveOnly THEN AfterConfig(T, ok, store)
                  ELSE SetTop(T, [fr EXCEPT !.rq = rq,
                         !.pc = IF conf.RelType = REL_ONE THEN "new" ELSE "pull"])]
    /\ UNCHANGED <<inst, app, crashed, faulty, calls, proj>>

\* the reference query of the config in progress
RefOf(fr) == IF fr.rq # <<>> THEN fr.rq ELSE DefaultRef(Conf(fr), DocOf(fr).ID)

\* cascadeSaveWithConfig, REL_MANY: the pull on Query, its result dropped
SavePull(t) ==
    /\ Running(t, "save", "pull")
    /\ \E ok \in Outcomes :
        LET T == Issued(tasks[t], ok)
            fr == Top(T.stack)
            conf == Conf(fr)
            rq == RefOf(fr)
        IN  /\ db' = IF ok THEN UpdateMany(conf.Collection, conf.Query, PullUpdate(conf, rq))
                     ELSE db
            /\ tasks' = [tasks EXCEPT ![t] = SetTop(T, [fr EXCEPT !.rq = rq, !.pc = "push"])]
    /\ UNCHANGED <<inst, app, crashed, faulty, calls, proj>>

\* a faulty variant: the cleanup on OldQuery is issued after the $set on Query
SaveSetThenClear(t) ==
    /\ Running(t, "save", "new")
    /\ \E ok \in Outcomes :
        LET T == Issued(tasks[t], ok)
            conf == Conf(Top(T.stack))
            written == UpdateMany(conf.Collection, conf.Query, SetUpdate(conf))
            store == IF ~ok THEN db
                     ELSE IF Len(conf.OldQuery) = 0 THEN written
                     ELSE [written EXCEPT ![conf.Collection] =
                             [i \in DOMAIN @ |->
                                IF Matches(i, @[i], conf.OldQuery)
                                THEN Apply(@[i], ClearUpdate(conf)) ELSE @[i]]]
        IN  /\ db' = store
            /\ tasks' = [tasks EXCEPT ![t] = AfterConfig(T, ok, store)]
    /\ UNCHANGED <<inst, app, crashed, faulty, calls, proj>>

\* cascadeSaveWithConfig, REL_ONE: the $set on Query
SaveSet(t) ==
    /\ Running(t, "save", "new")
    /\ \E ok \in Outcomes :
        LET T == Issued(tasks[t], ok)
            conf == Conf(Top(T.stack))
            store == IF ok THEN UpdateMany(conf.Collection, conf.Query, SetUpdate(conf)) ELSE db
        IN  /\ db' = store
            /\ tasks' = [tasks EXCEPT ![t] = AfterConfig(T, ok, store)]
    /\ UNCHANGED <<inst, app, crashed, faulty, calls, proj>>

\* cascadeSaveWithConfig, REL_MANY: the $push on Query
SavePush(t) ==
    /\ Running(t, "save", "push")
    /\ \E ok \in Outcomes :
        LET T == Issued(tasks[t], ok)
            conf == Conf(Top(T.stack))
            store == IF ok THEN UpdateMany(conf.Collection, conf.Query, PushUpdate(conf)) ELSE db
        IN  /\ db' = store
            /\ tasks' = [tasks EXCEPT ![t] = AfterConfig(T, ok, store)]
    /\ UNCHANGED <<inst, app, crashed, faulty, calls, proj>>

\* cascadeSaveWithConfig: neither case of the switch applies; the error ends
\* CascadeSave and no update is issued
SaveInvalid(t) ==
    /\ Running(t, "save", "bad")
    /\ tasks' = [tasks EXCEPT ![t] = Finished(tasks[t], "error")]
    /\ UNCHANGED <<db, inst, app, crashed, faulty, calls, proj>>

\* CascadeSave, conf.Nest: Find on the target collection, then the loop
SaveFind(t) ==
    /\ Running(t, "save", "find")
    /\ Len(tasks[t].stack) < MaxDepth
    /\ \E ok \in Outcomes :
        LET T == Issued(tasks[t], ok)
            fr == Top(T.stack)
            conf == Conf(fr)
            found == SortedSeq(Matching(conf.Collection, conf.Query))
        IN  tasks' = [tasks EXCEPT ![t] =
                IF ok THEN Loop(SetTop(T, [fr EXCEPT !.cur = found]), db)
                ELSE Finished(T, "error")]
    /\ UNCHANGED <<db, inst, app, crashed, faulty, calls, proj>>

\* cascadeDeleteWithConfig: the one update of a config, on Query
DeleteUpdateOf(conf, rq) ==
    IF conf.RelType = REL_ONE THEN ClearUpdate(conf) ELSE PullUpdate(conf, rq)

\* CascadeDelete must read the field Id to default the reference query
NeedsIdField(fr) == Len(Conf(fr).ReferenceQuery) = 0

\* CascadeDelete: the type assertion and GetCascade
DeleteGetCascade(t) ==
    /\ Running(t, "delete", "get")
    /\ LET T == tasks[t]
           fr == Top(T.stack)
           confs == ToCascade(DocOf(fr))
       IN  tasks' = [tasks EXCEPT ![t] =
               IF confs = <<>> THEN Finished(T, "nil")
               ELSE SetTop(T, [fr EXCEPT !.confs = confs, !.k = 1, !.pc = "del"])]
    /\ UNCHANGED <<db, inst, app, crashed, faulty, calls, proj>>

\* a faulty variant: CascadeDelete returns at the first config whose update fails
DeleteConfigStops(t) ==
    /\ Running(t, "delete", "del")
    /\ NeedsIdField(Top(tasks[t].stack)) => HasField(DocOf(Top(tasks[t].stack)), "Id")
    /\ \E stored \in Outcomes :
        LET ok == stored /\ Conf(Top(tasks[t].stack)).RelType \in {REL_ONE, REL_MANY}
            T == Issued(tasks[t], ok)
            fr == Top(T.stack)
            conf == Conf(fr)
            rq == DefaultRef(conf, DocOf(fr).ID)
        IN  /\ db' = IF ok THEN UpdateMany(conf.Collection, conf.Query, DeleteUpdateOf(conf, rq))
                     ELSE db
            /\ tasks' = [tasks EXCEPT ![t] =
                  IF ~ok THEN Finished(T, "error")
                  ELSE IF fr.k < Len(fr.confs) THEN SetTop(T, [fr EXCEPT !.k = fr.k + 1])
                  ELSE Finished(T, "nil")]
    /\ UNCHANGED <<inst, app, crashed, faulty, calls, proj>>

\* a faulty variant: for a config with Nest, CascadeDelete goes on into conf.Instance
DeleteConfigNest(t) ==
    /\ Running(t, "delete", "del")
    /\ NeedsIdField(Top(tasks[t].stack)) => HasField(DocOf(Top(tasks[t].stack)), "Id")
    /\ \E stored \in Outcomes :
        LET ok == stored /\ Conf(Top(tasks[t].stack)).RelType \in {REL_ONE, REL_MANY}
            T == Issued(tasks[t], ok)
            fr == Top(T.stack)
            conf == Conf(fr)
            rq == DefaultRef(conf, DocOf(fr).ID)
        IN  /\ db' = IF ok THEN UpdateMany(conf.Collection, conf.Query, DeleteUpdateOf(conf, rq))
                     ELSE db
            /\ tasks' = [tasks EXCEPT ![t] =
                  IF conf.Nest /\ Len(T.stack) < MaxDepth
                  THEN [T EXCEPT !.stack = Append(T.stack, Frame([val |-> conf.Instance]))]
                  ELSE IF fr.k < Len(fr.confs) THEN SetTop(T, [fr EXCEPT !.k = fr.k + 1])
                  ELSE Finished(T, "nil")]
    /\ UNCHANGED <<inst, app, crashed, faulty, calls, proj>>

\* CascadeDelete: one config; the result of cascadeDeleteWithConfig is dropped
DeleteConfig(t) ==
    /\ Running(t, "delete", "del")
    /\ NeedsIdField(Top(tasks[t].stack)) => HasField(DocOf(Top(tasks[t].stack)), "Id")
    /\ \E stored \in Outcomes :
        LET ok == stored /\ Conf(Top(tasks[t].stack)).RelType \in {REL_ONE, REL_MANY}
            T == Issued(tasks[t], ok)
            fr == Top(T.stack)
            conf == Conf(fr)
            rq == DefaultRef(conf, DocOf(fr).ID)
        IN  /\ db' = IF ok THEN UpdateMany(conf.Collection, conf.Query, DeleteUpdateOf(conf, rq))
                     ELSE db
            /\ tasks' = [tasks EXCEPT ![t] =
                  IF fr.k < Len(fr.confs) THEN SetTop(T, [fr EXCEPT !.k = fr.k + 1])
                  ELSE Finished(T, "nil")]
    /\ UNCHANGED <<inst, app, crashed, faulty, calls, proj>>

\* CascadeDelete: reflections.GetField(doc, "Id") fails and the goroutine panics
DeletePanic(t) ==
    /\ Running(t, "delete", "del")
    /\ NeedsIdField(Top(tasks[t].stack))
    /\ ~HasField(DocOf(Top(tasks[t].stack)), "Id")
    /\ tasks' = [tasks EXCEPT ![t] = [IdleTask EXCEPT !.st = "panic"]]
    /\ crashed' = TRUE
    /\ UNCHANGED <<db, inst, app, faulty, calls, proj>>

(* ------------------------------------------------------------ application *)

IdleApp ==
    [pc |-> "idle", call |-> "none", d |-> "none", t |-> 0, isNew |-> FALSE, ret |-> "none",
     errs |-> <<>>, arg |-> <<>>]

\* the call returns: "nil", or the error of the step that failed
Returned(call, ret) == [IdleApp EXCEPT !.call = call, !.ret = ret]

\* a faulty variant: a plain call f(), the caller waits until f has returned
AwaitsGoroutineJoin(t) == tasks[t].st = "run"

\* go f(): the caller goes on at once and never waits for the goroutine
AwaitsGoroutine(t) == FALSE

FreeSlots == {t \in Slots : tasks[t].st # "run"}

FreeSlot == CHOOSE t \in FreeSlots : \A u \in FreeSlots : t <= u

\* go CascadeSave(c, doc) / go CascadeDelete(c, doc)
Spawn(kind, d, primary) ==
    [st |-> "run", kind |-> kind, src |-> d, stack |-> <<Frame([ptr |-> d])>>,
     ret |-> "none", primary |-> primary, solo |-> \A t \in Slots : tasks[t].st # "run",
     last |-> "ok"]

\* the goroutine slots after a go statement; the goroutines already running
\* are no longer alone
Started(kind, d, primary) ==
    [t \in Slots |-> IF t = FreeSlot THEN Spawn(kind, d, primary)
                     ELSE [tasks[t] EXCEPT !.solo = FALSE]]

\* the hooks a document type implements; a hook returns nil or an error
Hooks(doc) ==
    IF doc.kind = "Hooked"
    THEN {"BeforeSave", "AfterSave", "BeforeDelete", "AfterDelete"}
    ELSE {}

HookFails(doc, hook) == IF faulty /\ hook \in Hooks(doc) THEN BOOLEAN ELSE {FALSE}

\* ValidateRequired(val): val is not the zero value of its type
ValidateRequired(val) == val # ""

\* doc.(ValidateHook) and Validate(c): the errors found, none for a type
\* without the method
Validate(doc) ==
    IF doc.kind = "Validated" /\ ~ValidateRequired(doc.Name)
    THEN <<"name is required">>
    ELSE <<>>

\* doc.(BeforeSaveHook) and BeforeSave(c): the hook notes that it ran
BeforeSave(doc) ==
    IF "RanBeforeSave" \in DOMAIN doc THEN [doc EXCEPT !.RanBeforeSave = TRUE] ELSE doc

CanCall ==
    /\ ~crashed
    /\ app.pc = "idle"
    /\ calls < MaxCalls
    /\ FreeSlots # {}

\* the outcome of the primary write, noted at the goroutine the call started
Primary(t, outcome) ==
    IF tasks[t].st = "run" THEN [tasks EXCEPT ![t].primary = outcome] ELSE tasks

\* a faulty variant: PreSave runs BeforeSave first and Validate after it
SaveBeginHookFirst(d) ==
    /\ CanCall
    /\ calls' = calls + 1
    /\ inst' = [inst EXCEPT ![d] = BeforeSave(@)]
    /\ \E failed \in HookFails(inst[d], "BeforeSave") :
        IF failed
        THEN /\ app' = Returned("save", "before")
             /\ tasks' = tasks
        ELSE IF Len(Validate(inst[d])) > 0
        THEN /\ app' = [Returned("save", "validation") EXCEPT !.errs = Validate(inst[d])]
             /\ tasks' = tasks
        ELSE /\ app' = [IdleApp EXCEPT !.pc = "s_id", !.call = "save", !.d = d,
                           !.t = FreeSlot, !.isNew = ~inst[d].exists]
             /\ tasks' = Started("save", d, "pending")
    /\ UNCHANGED <<db, crashed, faulty, proj>>

\* Collection.Save up to the go statement: PreSave, the new-tracker, the goroutine
SaveBegin(d) ==
    /\ CanCall
    /\ calls' = calls + 1
    /\ \E failed \in HookFails(inst[d], "BeforeSave") :
        IF Len(Validate(inst[d])) > 0
        THEN /\ app' = [Returned("save", "validation") EXCEPT !.errs = Validate(inst[d])]
             /\ tasks' = tasks
             /\ inst' = inst
        ELSE /\ inst' = [inst EXCEPT ![d] = BeforeSave(@)]
             /\ IF failed
                THEN /\ app' = Returned("save", "before")
                     /\ tasks' = tasks
                ELSE /\ app' = [IdleApp EXCEPT !.pc = "s_id", !.call = "save", !.d = d,
                                   !.t = FreeSlot, !.isNew = ~inst[d].exists]
                     /\ tasks' = Started("save", d, "pending")
    /\ UNCHANGED <<db, crashed, faulty, proj>>

\* Collection.Save: the identifier check and SetId
SaveCheckID ==
    /\ ~crashed
    /\ app.pc = "s_id"
    /\ ~AwaitsGoroutine(app.t)
    /\ LET id == inst[app.d].ID IN
       IF ~app.isNew /\ id = NilID
       THEN /\ app' = Returned("save", "id")
            /\ tasks' = Primary(app.t, "failed")
            /\ inst' = inst
       ELSE /\ app' = [app EXCEPT !.pc = "s_upsert"]
            /\ inst' = IF app.isNew /\ id = NilID
                       THEN [inst EXCEPT ![app.d].ID = NewObjectID(app.d)]
                       ELSE inst
            /\ tasks' = tasks
    /\ UNCHANGED <<db, crashed, faulty, calls, proj>>

Upsert(coll, id, doc) ==
    [db EXCEPT ![coll] =
        [i \in DOMAIN db[coll] \cup {id} |-> IF i = id THEN doc ELSE db[coll][i]]]

\* a faulty variant: SetIsNew(false) runs whatever the upsert and AfterSave returned
SaveUpsertMarksAlways ==
    /\ ~crashed
    /\ app.pc = "s_upsert"
    /\ ~AwaitsGoroutine(app.t)
    /\ \E ok \in Outcomes, failed \in HookFails(inst[app.d], "AfterSave") :
        LET d == app.d IN
        /\ db' = IF ok THEN Upsert(CollOf(d), inst[d].ID, ToDoc(inst[d])) ELSE db
        /\ tasks' = Primary(app.t, IF ok THEN "committed" ELSE "failed")
        /\ inst' = [inst EXCEPT ![d].exists = TRUE]
        /\ app' = Returned("save", IF ~ok THEN "store" ELSE IF failed THEN "after" ELSE "nil")
    /\ UNCHANGED <<crashed, faulty, calls, proj>>

\* Collection.Save: the primary upsert, AfterSave, SetIsNew(false), return
SaveUpsert ==
    /\ ~crashed
    /\ app.pc = "s_upsert"
    /\ ~AwaitsGoroutine(app.t)
    /\ \E ok \in Outcomes, failed \in HookFails(inst[app.d], "AfterSave") :
        LET d == app.d IN
        /\ db' = IF ok THEN Upsert(CollOf(d), inst[d].ID, ToDoc(inst[d])) ELSE db
        /\ tasks' = Primary(app.t, IF ok THEN "committed" ELSE "failed")
        /\ inst' = IF ok /\ ~failed THEN [inst EXCEPT ![d].exists = TRUE] ELSE inst
        /\ app' = Returned("save", IF ~ok THEN "store" ELSE IF failed THEN "after" ELSE "nil")
    /\ UNCHANGED <<crashed, faulty, calls, proj>>

DeleteOne(coll, id) ==
    [db EXCEPT ![coll] = [i \in DOMAIN db[coll] \ {id} |-> db[coll][i]]]

\* a faulty variant: the goroutine is started before BeforeDelete and DeleteOne
DeleteDocumentEager(d) ==
    /\ CanCall
    /\ calls' = calls + 1
    /\ \E before \in HookFails(inst[d], "BeforeDelete"), ok \in Outcomes,
          after \in HookFails(inst[d], "AfterDelete") :
        /\ tasks' = Started("delete", d, IF before \/ ~ok THEN "failed" ELSE "committed")
        /\ IF before \/ ~ok
           THEN /\ app' = Returned("delete", IF before THEN "before" ELSE "store")
                /\ db' = db
           ELSE /\ db' = DeleteOne(CollOf(d), inst[d].ID)
                /\ app' = Returned("delete", IF after THEN "after" ELSE "nil")
    /\ UNCHANGED <<inst, crashed, faulty, proj>>

\* Collection.DeleteDocument
DeleteDocument(d) ==
    /\ CanCall
    /\ calls' = calls + 1
    /\ \E before \in HookFails(inst[d], "BeforeDelete"), ok \in Outcomes,
          after \in HookFails(inst[d], "AfterDelete") :
        IF before \/ ~ok
        THEN /\ app' = Returned("delete", IF before THEN "before" ELSE "store")
             /\ UNCHANGED <<db, tasks>>
        ELSE /\ db' = DeleteOne(CollOf(d), inst[d].ID)
             /\ tasks' = Started("delete", d, "committed")
             /\ app' = Returned("delete", IF after THEN "after" ELSE "nil")
    /\ UNCHANGED <<inst, crashed, faulty, proj>>

\* mongo.Collection.Find(ctx, filter): a cursor over the matching documents
\* and a nil error, or a nil cursor and the error
Find(coll, q, ok) ==
    IF ok THEN [cur |-> [Err |-> Null, ids |-> SortedSeq(Matching(coll, q))], err |-> Null]
    ELSE [cur |-> Null, err |-> [error |-> "find"]]

\* ValidateMongoIdRef: false when err != nil || cur.Err() != nil || cur != nil
ValidateMongoIdRef(id, coll, ok) ==
    LET found == Find(coll, <<[k |-> "_id", v |-> id]>>, ok) IN
    IF found.err # Null THEN FALSE
    ELSE IF found.cur.Err # Null THEN FALSE
    ELSE IF found.cur # Null THEN FALSE
    ELSE TRUE

\* the identifiers and collections the application asks about
RefIDs == {NewObjectID("hooked"), 8}

RefCollections == {"tests", "children"}

\* the application calls ValidateMongoIdRef(id, collection)
ValidateRef(id, coll) ==
    /\ ~crashed
    /\ app.pc = "idle"
    /\ \E ok \in Outcomes :
          app' = [IdleApp EXCEPT !.call = "validate", !.arg = <<id, coll>>,
                    !.ret = IF ValidateMongoIdRef(id, coll, ok) THEN "true" ELSE "false"]
    /\ UNCHANGED <<db, inst, tasks, crashed, faulty, calls, proj>>

\* the application fills in or blanks the name of the validated document
SetName(n) ==
    /\ ~crashed
    /\ app.pc = "idle"
    /\ inst["validated"].Name # n
    /\ inst' = [inst EXCEPT !["validated"].Name = n]
    /\ UNCHANGED <<db, app, tasks, crashed, faulty, calls, proj>>

\* the application reassigns the child: child.ParentID = p
SetParentID(p) ==
    /\ ~crashed
    /\ app.pc = "idle"
    /\ inst["child"].ParentID # p
    /\ inst' = [inst EXCEPT !["child"].ParentID = p]
    /\ UNCHANGED <<db, app, tasks, crashed, faulty, calls, proj>>

Quiescent == \A t \in Slots : tasks[t].st # "run"

\* child.GetDiffTracker().Reset(), called as the data model prescribes: after a
\* cascade has committed, to establish the new baseline
ResetTracker ==
    /\ ~crashed
    /\ app.pc = "idle"
    /\ Quiescent
    /\ inst["child"].exists
    /\ inst' = [inst EXCEPT !["child"] = Reset(@)]
    /\ inst' # inst
    /\ UNCHANGED <<db, app, tasks, crashed, faulty, calls, proj>>

(* ---------------------------------------------------- field-path projector *)

\* a string is the sequence of its pieces, "." being the separator
RECURSIVE Join(_)
Join(cs) == IF cs = <<>> THEN "" ELSE Head(cs) \o Join(Tail(cs))

\* strings.Split(prop, "."): cur is the segment read so far
RECURSIVE SplitFrom(_, _)
SplitFrom(cs, cur) ==
    IF cs = <<>> THEN <<cur>>
    ELSE IF Head(cs) = "." THEN <<cur>> \o SplitFrom(Tail(cs), "")
    ELSE SplitFrom(Tail(cs), cur \o Head(cs))

Split(prop) == SplitFrom(prop, "")

\* the Parent the projection is called on: a struct of strings and structs
ParentDoc ==
    [struct |->
        [bar |-> Str("bar"),
         child |-> [struct |-> [name |-> Str("child"),
                                subChild |-> [struct |-> [foo |-> Str("foo")]]]]]]

\* the paths a caller may list in properties
Paths ==
    {<<"bar">>, <<"child">>, <<"child", ".", "name">>, <<"child", ".", "subChild">>,
     <<"child", ".", "subChild", ".", "foo">>, <<"bar", ".", "name">>}

\* dotaccess.Get(doc, prop) with its error dropped: the field the path leads
\* to, nil when a segment names no field
RECURSIVE GetPath(_, _)
GetPath(v, split) ==
    IF split = <<>> THEN v
    ELSE IF "struct" \in DOMAIN v /\ Head(split) \in DOMAIN v.struct
         THEN GetPath(v.struct[Head(split)], Tail(split))
         ELSE Null

DotaccessGet(doc, prop) == GetPath(doc, Split(prop))

\* a value made by make(map[string]interface{}): the type assertion
\* curData[s].(map[string]interface{}) succeeds on it and on nothing else
MakeMap(m) == [map |-> m]

IsMap(v) == "map" \in DOMAIN v

\* data[key] = val
PutKey(m, key, val) == [k \in DOMAIN m \cup {key} |-> IF k = key THEN val ELSE m[k]]

\* the loop over split reaches a key that holds something that is no map
RECURSIVE NonMapOnPath(_, _)
NonMapOnPath(curData, split) ==
    IF split = <<>> \/ Head(split) \notin DOMAIN curData THEN FALSE
    ELSE IF IsMap(curData[Head(split)])
         THEN NonMapOnPath(curData[Head(split)].map, Tail(split))
         ELSE TRUE

\* the loop over split, then curData[actualProp] = val: the maps are shared,
\* so the assignment shows in data
RECURSIVE PutNested(_, _, _, _)
PutNested(curData, split, actualProp, val) ==
    IF split = <<>> THEN PutKey(curData, actualProp, val)
    ELSE LET s == Head(split)
             mapped == IF s \in DOMAIN curData THEN curData[s].map ELSE <<>>
         IN  PutKey(curData, s, MakeMap(PutNested(mapped, Tail(split), actualProp, val)))

IdleProj == [st |-> "idle", props |-> <<>>, all |-> <<>>, data |-> <<>>]

Projecting == ~crashed /\ proj.st = "run" /\ proj.props # <<>>

\* one round of the loop over properties, len(split) == 1
MapSingle ==
    /\ Projecting
    /\ LET prop == Head(proj.props) IN
        /\ Len(Split(prop)) = 1
        /\ proj' = [proj EXCEPT !.props = Tail(@),
                      !.data = PutKey(@, Join(prop), DotaccessGet(inst["parent"], prop))]
    /\ UNCHANGED <<db, inst, app, tasks, crashed, faulty, calls>>

\* one round of the loop over properties, a path with dots
MapNested ==
    /\ Projecting
    /\ LET prop == Head(proj.props)
           split == Split(prop)
           actualProp == split[Len(split)]
           inner == SubSeq(split, 1, Len(split) - 1)
       IN  /\ Len(split) > 1
           /\ ~NonMapOnPath(proj.data, inner)
           /\ proj' = [proj EXCEPT !.props = Tail(@),
                         !.data = PutNested(@, inner, actualProp,
                                            DotaccessGet(inst["parent"], prop))]
    /\ UNCHANGED <<db, inst, app, tasks, crashed, faulty, calls>>

\* panic("Cannot access non-map property via dot notation")
MapPanic ==
    /\ Projecting
    /\ LET split == Split(Head(proj.props)) IN
        /\ Len(split) > 1
        /\ NonMapOnPath(proj.data, SubSeq(split, 1, Len(split) - 1))
    /\ proj' = [proj EXCEPT !.st = "panic"]
    /\ crashed' = TRUE
    /\ UNCHANGED <<db, inst, app, tasks, faulty, calls>>

\* return data
MapReturn ==
    /\ ~crashed
    /\ proj.st = "run"
    /\ proj.props = <<>>
    /\ proj' = [proj EXCEPT !.st = "done"]
    /\ UNCHANGED <<db, inst, app, tasks, crashed, faulty, calls>>

\* MapFromCascadeProperties(properties, doc) as a function of the list: the
\* rounds of the loop applied to data one after the other, ending in the map
\* or in the panic
RECURSIVE MapFromCascadeProperties(_, _, _)
MapFromCascadeProperties(properties, doc, data) ==
    IF properties = <<>> THEN [st |-> "done", data |-> data]
    ELSE LET prop == Head(properties)
             split == Split(prop)
             actualProp == split[Len(split)]
             inner == SubSeq(split, 1, Len(split) - 1)
         IN  IF Len(split) = 1
             THEN MapFromCascadeProperties(Tail(properties), doc,
                                           PutKey(data, Join(prop), DotaccessGet(doc, prop)))
             ELSE IF NonMapOnPath(data, inner)
             THEN [st |-> "panic", data |-> data]
             ELSE MapFromCascadeProperties(Tail(properties), doc,
                      PutNested(data, inner, actualProp, DotaccessGet(doc, prop)))

\* child.GetDiffTracker().Reset() called as soon as Save has returned nil,
\* whether or not the cascade Save started has finished
ResetAfterSave ==
    /\ ~crashed
    /\ app.pc = "idle"
    /\ app.call = "save"
    /\ app.ret = "nil"
    /\ inst' = [inst EXCEPT !["child"] = Reset(@)]
    /\ inst' # inst
    /\ UNCHANGED <<db, app, tasks, crashed, faulty, calls, proj>>

\* doc.SetIsNew(isNew), called by the application between two operations
SetIsNew(d, isNew) ==
    /\ ~crashed
    /\ app.pc = "idle"
    /\ Quiescent
    /\ inst[d].exists = isNew
    /\ inst' = [inst EXCEPT ![d].exists = ~isNew]
    /\ UNCHANGED <<db, app, tasks, crashed, faulty, calls, proj>>

(* ---------------------------------------------------------- specification *)

InitDocs ==
    [child |-> [kind |-> "Child", idField |-> "ID", ID |-> NilID, exists |-> FALSE,
                ParentID |-> 1, Name |-> "n1", SubChild |-> ZeroSub, ChildProp |-> "cp",
                orig |-> [set |-> FALSE]],
     sub |-> [kind |-> "SubChild", idField |-> "ID", ID |-> NilID, exists |-> FALSE,
              ChildID |-> NewObjectID("child"), Foo |-> "f1"],
     hooked |-> [kind |-> "Hooked", idField |-> "ID", ID |-> NilID, exists |-> FALSE,
                 Name |-> ""]]

InitStore ==
    [parents |-> [p \in ParentIDs |-> [child |-> Null, children |-> <<>>, childProp |-> Null]],
     children |-> <<>>, subchildren |-> <<>>, tests |-> <<>>]

InitCommon ==
    /\ db = InitStore
    /\ app = IdleApp
    /\ tasks = [t \in Slots |-> IdleTask]
    /\ crashed = FALSE
    /\ calls = 0
    /\ proj = IdleProj

\* the fixture's types embed DocumentBase, whose key field is named ID
Init == InitCommon /\ inst = InitDocs /\ faulty = FALSE

InitFault == InitCommon /\ inst = InitDocs /\ faulty = TRUE

\* a child type that declares its key field itself, under the name Id
InitOwnId ==
    /\ InitCommon
    /\ inst = [InitDocs EXCEPT !["child"].idField = "Id"]
    /\ faulty = FALSE

Application(D) ==
    \/ \E d \in D : SaveBegin(d)
    \/ SaveCheckID
    \/ SaveUpsert
    \/ \E p \in ParentIDs : SetParentID(p)
    \/ ResetTracker

SaveTask(t) ==
    \/ SaveGetCascade(t)
    \/ SaveOld(t)
    \/ SavePull(t)
    \/ SaveSet(t)
    \/ SavePush(t)

\* the child and a document without GetCascade, saved and deleted
Next ==
    \/ Application({"child", "hooked"})
    \/ \E d \in {"child", "hooked"} : DeleteDocument(d)
    \/ \E t \in Slots : SaveTask(t)
    \/ \E t \in Slots : DeleteGetCascade(t)
    \/ \E t \in Slots : DeletePanic(t)

Spec == Init /\ [][Next]_vars

\* the same, with store operations and hooks that may fail
\* store calls and hooks may fail; the association is left alone
NextFault ==
    \/ \E d \in {"child", "hooked"} : SaveBegin(d)
    \/ SaveCheckID
    \/ SaveUpsert
    \/ \E d \in {"child", "hooked"} : DeleteDocument(d)
    \/ \E t \in Slots : SaveGetCascade(t)
    \/ \E t \in Slots : SavePull(t)
    \/ \E t \in Slots : SaveSet(t)
    \/ \E t \in Slots : SavePush(t)
    \/ \E t \in Slots : DeleteGetCascade(t)
    \/ \E t \in Slots : DeletePanic(t)

SpecFault == InitFault /\ [][NextFault]_vars

\* the child and the sub-child, whose config nests
NextNest ==
    \/ Application({"child", "sub"})
    \/ \E t \in Slots : SaveTask(t)
    \/ \E t \in Slots : SaveFind(t)

SpecNest == Init /\ [][NextNest]_vars

\* a child whose identifier CascadeDelete can read
NextOwnId ==
    \/ Application({"child"})
    \/ DeleteDocument("child")
    \/ \E t \in Slots : SaveTask(t)
    \/ \E t \in Slots : DeleteGetCascade(t)
    \/ \E t \in Slots : DeleteConfig(t)

SpecOwnId == InitOwnId /\ [][NextOwnId]_vars

\* the configs a generic cascading document may be built with: each relation
\* type, with and without ThroughProp, OldQuery, RemoveOnly and Nest
GenConf(rel, through, old, removeOnly, nest) ==
    [Config("parents", rel, through, <<[k |-> "_ID", v |-> 2]>>,
            IF through = "" THEN <<"childProp">> ELSE <<"_ID", "name">>, Null)
     EXCEPT !.OldQuery = old, !.RemoveOnly = removeOnly, !.Nest = nest,
            !.Instance = IF nest THEN ZeroChild ELSE Null]

Throughs(rel) == IF rel = REL_ONE THEN {"child", ""} ELSE {"children"}

GenConfs(nests) ==
    UNION {{GenConf(rel, through, old, ro, nest) :
               through \in Throughs(rel), old \in {<<>>, <<[k |-> "_ID", v |-> 1]>>},
               ro \in BOOLEAN, nest \in nests} :
           rel \in {REL_ONE, REL_MANY, RelInvalid}}

\* the config that follows the one under study
LastConf == GenConf(REL_ONE, "", <<>>, FALSE, FALSE)

\* a generic document saved earlier, when parent 1 was its owner
GenDoc(confs) ==
    [kind |-> "Generic", idField |-> "Id", ID |-> NewObjectID("gen"), exists |-> TRUE,
     Name |-> "g", confs |-> confs]

InitGen(nests, f) ==
    /\ \E c \in GenConfs(nests) :
          inst = [d \in {"gen"} |-> GenDoc(<<c, LastConf>>)]
    /\ db = [InitStore EXCEPT
               !.parents[1] = [child |-> GenRef(GenDoc(<<>>)),
                               children |-> <<GenRef(GenDoc(<<>>))>>,
                               childProp |-> Str("g")],
               !.tests = [i \in {NewObjectID("gen")} |-> ToDoc(GenDoc(<<>>))]]
    /\ app = IdleApp
    /\ tasks = [t \in Slots |-> IdleTask]
    /\ crashed = FALSE
    /\ calls = 0
    /\ proj = IdleProj
    /\ faulty = f

\* every config, the store never failing
InitConf == InitGen(BOOLEAN, FALSE)

\* the configs without Nest, the store free to fail
InitConfFault == InitGen({FALSE}, TRUE)

NextConf ==
    \/ SaveBegin("gen")
    \/ SaveCheckID
    \/ SaveUpsert
    \/ DeleteDocument("gen")
    \/ \E t \in Slots : SaveGetCascade(t)
    \/ \E t \in Slots : SaveOld(t)
    \/ \E t \in Slots : SavePull(t)
    \/ \E t \in Slots : SaveSet(t)
    \/ \E t \in Slots : SavePush(t)
    \/ \E t \in Slots : SaveFind(t)
    \/ \E t \in Slots : SaveInvalid(t)
    \/ \E t \in Slots : DeleteGetCascade(t)
    \/ \E t \in Slots : DeleteConfig(t)

SpecConf == InitConf /\ [][NextConf]_vars

NextConfFault ==
    \/ SaveBegin("gen")
    \/ SaveCheckID
    \/ SaveUpsert
    \/ DeleteDocument("gen")
    \/ \E t \in Slots : SaveGetCascade(t)
    \/ \E t \in Slots : SaveOld(t)
    \/ \E t \in Slots : SavePull(t)
    \/ \E t \in Slots : SaveSet(t)
    \/ \E t \in Slots : SavePush(t)
    \/ \E t \in Slots : SaveInvalid(t)
    \/ \E t \in Slots : DeleteGetCascade(t)
    \/ \E t \in Slots : DeleteConfig(t)

SpecConfFault == InitConfFault /\ [][NextConfFault]_vars

\* a document of type A whose configs nest into type B and back
InitCycle ==
    /\ inst = [d \in {"cyc"} |-> ZeroCyc("CycA")]
    /\ db = [InitStore EXCEPT !.tests = [i \in {9} |-> [name |-> "", child |-> Null]]]
    /\ app = IdleApp
    /\ tasks = [t \in Slots |-> IdleTask]
    /\ crashed = FALSE
    /\ calls = 0
    /\ proj = IdleProj
    /\ faulty = FALSE

NextCycle ==
    \/ SaveBegin("cyc")
    \/ SaveCheckID
    \/ SaveUpsert
    \/ \E t \in Slots : SaveGetCascade(t)
    \/ \E t \in Slots : SaveSet(t)
    \/ \E t \in Slots : SaveFind(t)

SpecCycle == InitCycle /\ [][NextCycle]_vars

\* the sub-child is saved, the child it belongs to being in the store already;
\* store calls may fail
InitPersist ==
    /\ inst = InitDocs
    /\ db = [InitStore EXCEPT
               !.children = [i \in {NewObjectID("child")} |-> ToDoc(InitDocs["child"])]]
    /\ app = IdleApp
    /\ tasks = [t \in Slots |-> IdleTask]
    /\ crashed = FALSE
    /\ calls = 0
    /\ proj = IdleProj
    /\ faulty = TRUE

NextPersist ==
    \/ \E d \in {"sub", "hooked"} : SaveBegin(d)
    \/ SaveCheckID
    \/ SaveUpsert
    \/ \E t \in Slots : SaveGetCascade(t)
    \/ \E t \in Slots : SavePull(t)
    \/ \E t \in Slots : SaveSet(t)
    \/ \E t \in Slots : SavePush(t)
    \/ \E t \in Slots : SaveFind(t)

SpecPersist == InitPersist /\ [][NextPersist]_vars

\* the child as an earlier Save and its cascade have left it: persisted, with
\* its copies at parent 1
SavedChild ==
    [InitDocs["child"] EXCEPT !.ID = NewObjectID("child"), !.exists = TRUE]

InitRace ==
    /\ inst = [InitDocs EXCEPT !["child"] = SavedChild]
    /\ db = [InitStore EXCEPT
               !.children = [i \in {SavedChild.ID} |-> ToDoc(SavedChild)],
               !.parents[1] = [child |-> ChildRef(SavedChild),
                               children |-> <<ChildRef(SavedChild)>>,
                               childProp |-> Str(SavedChild.ChildProp)]]
    /\ app = IdleApp
    /\ tasks = [t \in Slots |-> IdleTask]
    /\ crashed = FALSE
    /\ calls = 0
    /\ proj = IdleProj
    /\ faulty = FALSE

\* the child is saved again and again, each Save starting a cascade
NextRace ==
    \/ SaveBegin("child")
    \/ SaveCheckID
    \/ SaveUpsert
    \/ \E t \in Slots : SaveGetCascade(t)
    \/ \E t \in Slots : SavePull(t)
    \/ \E t \in Slots : SaveSet(t)
    \/ \E t \in Slots : SavePush(t)

SpecRace == InitRace /\ [][NextRace]_vars

\* the child of InitRace, its tracker reset while parent 1 was its owner, and
\* then reassigned to parent 2
MovedChild ==
    [Reset(SavedChild) EXCEPT !.ParentID = 2]

InitMoved ==
    /\ inst = [InitDocs EXCEPT !["child"] = MovedChild]
    /\ db = [InitStore EXCEPT
               !.children = [i \in {SavedChild.ID} |-> ToDoc(SavedChild)],
               !.parents[1] = [child |-> ChildRef(SavedChild),
                               children |-> <<ChildRef(SavedChild)>>,
                               childProp |-> Str(SavedChild.ChildProp)]]
    /\ app = IdleApp
    /\ tasks = [t \in Slots |-> IdleTask]
    /\ crashed = FALSE
    /\ calls = 0
    /\ proj = IdleProj
    /\ faulty = FALSE

\* the reassigned child is saved, and the caller resets the tracker after Save
NextMoved ==
    \/ SaveBegin("child")
    \/ SaveCheckID
    \/ SaveUpsert
    \/ ResetAfterSave
    \/ \E t \in Slots : SaveTask(t)

SpecMoved == InitMoved /\ [][NextMoved]_vars

\* the copy of another source document of the same type, saved earlier with
\* the same owners
OtherRef == [ID |-> 8, Name |-> "o"]

\* a generic document with one REL_ONE config; both parents hold the copy of
\* the other source document
InitOther ==
    /\ \E through \in Throughs(REL_ONE), old \in {<<>>, <<[k |-> "_ID", v |-> 1]>>},
          ro \in BOOLEAN :
          inst = [d \in {"gen"} |-> GenDoc(<<GenConf(REL_ONE, through, old, ro, FALSE)>>)]
    /\ db = [InitStore EXCEPT
               !.parents = [p \in ParentIDs |->
                              [child |-> OtherRef, children |-> <<OtherRef>>,
                               childProp |-> Str(OtherRef.Name)]],
               !.tests = [i \in {NewObjectID("gen")} |-> ToDoc(GenDoc(<<>>))]]
    /\ app = IdleApp
    /\ tasks = [t \in Slots |-> IdleTask]
    /\ crashed = FALSE
    /\ calls = 0
    /\ proj = IdleProj
    /\ faulty = FALSE

NextOther ==
    \/ SaveBegin("gen")
    \/ SaveCheckID
    \/ SaveUpsert
    \/ DeleteDocument("gen")
    \/ \E t \in Slots : SaveGetCascade(t)
    \/ \E t \in Slots : SaveOld(t)
    \/ \E t \in Slots : SaveSet(t)
    \/ \E t \in Slots : DeleteGetCascade(t)
    \/ \E t \in Slots : DeleteConfig(t)

SpecOther == InitOther /\ [][NextOther]_vars

\* a document is saved and deleted, and identifiers are looked up in between
NextRef ==
    \/ SaveBegin("hooked")
    \/ SaveCheckID
    \/ SaveUpsert
    \/ DeleteDocument("hooked")
    \/ \E t \in Slots : SaveGetCascade(t)
    \/ \E t \in Slots : DeleteGetCascade(t)
    \/ \E id \in RefIDs, coll \in RefCollections : ValidateRef(id, coll)

SpecRef == InitFault /\ [][NextRef]_vars

\* a new document of a type with Validate, BeforeSave and GetCascade, whose
\* name is required
ValidatedDoc ==
    [kind |-> "Validated", idField |-> "ID", ID |-> NilID, exists |-> FALSE, Name |-> "",
     RanBeforeSave |-> FALSE]

InitValidate ==
    /\ InitCommon
    /\ \E n \in {"", "v"} : inst = [d \in {"validated"} |-> [ValidatedDoc EXCEPT !.Name = n]]
    /\ faulty = FALSE

NextValidate ==
    \/ SaveBegin("validated")
    \/ SaveCheckID
    \/ SaveUpsert
    \/ \E n \in {"", "v", "w"} : SetName(n)
    \/ \E t \in Slots : SaveGetCascade(t)
    \/ \E t \in Slots : SaveSet(t)

SpecValidate == InitValidate /\ [][NextValidate]_vars

\* MapFromCascadeProperties(properties, parent) for every list of paths
PathLists == UNION {[1..n -> Paths] : n \in 0..MaxPaths}

InitMap ==
    /\ \E ps \in PathLists : proj = [st |-> "run", props |-> ps, all |-> ps, data |-> <<>>]
    /\ inst = [d \in {"parent"} |-> ParentDoc]
    /\ db = InitStore
    /\ app = IdleApp
    /\ tasks = [t \in Slots |-> IdleTask]
    /\ crashed = FALSE
    /\ calls = 0
    /\ faulty = FALSE

NextMap ==
    \/ MapSingle
    \/ MapNested
    \/ MapPanic
    \/ MapReturn

SpecMap == InitMap /\ [][NextMap]_vars

\* the child saved by an application that also sets the new-tracker itself
NextStale ==
    \/ \E isNew \in BOOLEAN : SetIsNew("child", isNew)
    \/ SaveBegin("child")
    \/ SaveCheckID
    \/ SaveUpsert
    \/ \E t \in Slots : SaveGetCascade(t)
    \/ \E t \in Slots : SavePull(t)
    \/ \E t \in Slots : SaveSet(t)
    \/ \E t \in Slots : SavePush(t)

SpecStale == Init /\ [][NextStale]_vars

\* the configs whose OldQuery selects the owner that Query selects
SameOwnerConfs ==
    UNION {{GenConf(rel, through, <<[k |-> "_ID", v |-> 2]>>, FALSE, FALSE) :
               through \in Throughs(rel)} :
           rel \in {REL_ONE, REL_MANY}}

\* the copy an earlier save left at the owner, under the name the document had
StaleRef == [GenRef(GenDoc(<<>>)) EXCEPT !.Name = "g0"]

\* a generic document saved earlier with parent 2 as its owner, and renamed since
InitSame ==
    /\ \E c \in SameOwnerConfs :
          inst = [d \in {"gen"} |-> GenDoc(<<c, LastConf>>)]
    /\ db = [InitStore EXCEPT
               !.parents[2] = [child |-> StaleRef,
                               children |-> <<StaleRef>>,
                               childProp |-> Str("g0")],
               !.tests = [i \in {NewObjectID("gen")} |->
                            ToDoc([GenDoc(<<>>) EXCEPT !.Name = "g0"])]]
    /\ app = IdleApp
    /\ tasks = [t \in Slots |-> IdleTask]
    /\ crashed = FALSE
    /\ calls = 0
    /\ proj = IdleProj
    /\ faulty = FALSE

NextSame ==
    \/ SaveBegin("gen")
    \/ SaveCheckID
    \/ SaveUpsert
    \/ \E t \in Slots : SaveGetCascade(t)
    \/ \E t \in Slots : SaveOld(t)
    \/ \E t \in Slots : SavePull(t)
    \/ \E t \in Slots : SaveSet(t)
    \/ \E t \in Slots : SavePush(t)

SpecSame == InitSame /\ [][NextSame]_vars

(* ------------------------------------------------------------- properties *)

\* goroutine t takes a step of its CascadeSave / CascadeDelete
Stepped(t) ==
    /\ tasks[t].st = "run"
    /\ tasks'[t].st # "run" \/ tasks'[t].stack # tasks[t].stack

PcOf(t) == Top(tasks[t].stack).pc

\* the documents of conf.Collection that match q once the step is taken
OwnersAfter(conf, q) ==
    {i \in DOMAIN db'[conf.Collection] : Matches(i, db'[conf.Collection][i], q)}

\* the entries of the owner's array that match the reference query
Entries(owner, conf, rq) ==
    {j \in 1..Len(ArrayOf(owner, conf.ThroughProp)) :
        MatchesRef(ArrayOf(owner, conf.ThroughProp)[j], rq)}

\* the owner holds the copy conf.Data of the source
HoldsCopy(i, owner, conf) ==
    IF conf.RelType = REL_MANY
    THEN \E j \in 1..Len(ArrayOf(owner, conf.ThroughProp)) :
            ArrayOf(owner, conf.ThroughProp)[j] = conf.Data
    ELSE IF conf.ThroughProp # ""
    THEN FieldOf(i, owner, conf.ThroughProp) = conf.Data
    ELSE \A f \in DOMAIN conf.Data : FieldOf(i, owner, f) = conf.Data[f]

\* the owner holds no copy of the source identified by rq
LostCopy(i, owner, conf, rq) ==
    IF conf.RelType = REL_MANY
    THEN Entries(owner, conf, rq) = {}
    ELSE IF conf.ThroughProp # ""
    THEN FieldOf(i, owner, conf.ThroughProp) = Null
    ELSE \A f \in Range(conf.Properties) : FieldOf(i, owner, f) = Null

\* C1: when the association has changed since Reset, so that the configs carry
\* an OldQuery, a cascade save that runs alone and returns nil leaves every
\* document matching OldQuery without the source's copy (ThroughProp or the
\* Properties nil for REL_ONE, the entry pulled for REL_MANY) and every
\* document matching Query with it
C1_MoveBetweenOwners ==
    [][\A t \in Slots :
        (/\ Stepped(t)
         /\ tasks[t].kind = "save"
         /\ tasks[t].solo
         /\ tasks'[t].st = "done"
         /\ tasks'[t].ret = "nil")
        => LET fr == tasks[t].stack[1]
               rq(conf) == DefaultRef(conf, DocOf(fr).ID)
           IN  \A k \in 1..Len(fr.confs) :
                 LET conf == fr.confs[k] IN
                 Len(conf.OldQuery) > 0 =>
                    /\ \A i \in OwnersAfter(conf, conf.OldQuery) :
                          LostCopy(i, db'[conf.Collection][i], conf, rq(conf))
                    /\ \A i \in OwnersAfter(conf, conf.Query) :
                          HoldsCopy(i, db'[conf.Collection][i], conf)]_vars

\* the child moved from parent 1 to parent 2: its cascade has cleared the old
\* owner's child, set the new owner's, and is about to pull the old owner's entry
C1_Witness ==
    \E t \in Slots :
        /\ tasks[t].st = "run" /\ tasks[t].kind = "save" /\ tasks[t].solo
        /\ LET fr == tasks[t].stack[1] IN
            /\ fr.k = 2 /\ fr.pc = "old"
            /\ fr.confs[1].OldQuery = <<[k |-> "_ID", v |-> 1]>>
            /\ fr.confs[1].Query = <<[k |-> "_ID", v |-> 2]>>
            /\ db.parents[1].child = Null
            /\ Len(db.parents[1].children) = 1
            /\ db.parents[2].child = fr.confs[1].Data

\* C2: the $set of a REL_ONE config with a ThroughProp and no OldQuery leaves
\* ThroughProp equal to Data in every document of the target collection that
\* matches Query
C2_OneSetsThroughProp ==
    [][\A t \in Slots :
        (/\ Stepped(t)
         /\ tasks[t].kind = "save"
         /\ PcOf(t) = "new"
         /\ tasks'[t].last = "ok"
         /\ Conf(Top(tasks[t].stack)).RelType = REL_ONE
         /\ Conf(Top(tasks[t].stack)).ThroughProp # ""
         /\ Len(Conf(Top(tasks[t].stack)).OldQuery) = 0)
        => LET conf == Conf(Top(tasks[t].stack)) IN
           \A i \in OwnersAfter(conf, conf.Query) :
              FieldOf(i, db'[conf.Collection][i], conf.ThroughProp) = conf.Data]_vars

\* the first config of the child has been saved into its owner
C2_Witness ==
    \E t \in Slots :
        /\ tasks[t].st = "run" /\ tasks[t].kind = "save"
        /\ LET fr == tasks[t].stack[1]
               conf == fr.confs[1]
           IN  /\ fr.k = 2
               /\ conf.RelType = REL_ONE /\ conf.ThroughProp = "child"
               /\ Len(conf.OldQuery) = 0
               /\ Matching(conf.Collection, conf.Query) # {}
               /\ \A i \in Matching(conf.Collection, conf.Query) :
                     db[conf.Collection][i].child = conf.Data

C4_DeleteRemovesReferences ==
    [][\A t \in Slots :
        (/\ Stepped(t)
         /\ tasks[t].kind = "delete"
         /\ tasks[t].solo
         /\ tasks'[t].st # "run"
         /\ Cascading(DocOf(tasks[t].stack[1])))
        => LET fr == tasks[t].stack[1]
               confs == fr.confs
           IN  \A k \in 1..Len(confs) :
                 \A i \in OwnersAfter(confs[k], confs[k].Query) :
                    LostCopy(i, db'[confs[k].Collection][i], confs[k],
                             DefaultRef(confs[k], DocOf(fr).ID))]_vars

\* C5: for a config with Nest, every nested CascadeSave runs on an instance
\* populated with the stored content of a document of the target collection
\* that matches the config's Query (which is what carries a sub-child's change
\* on to the grandparent)
C5_NestedInstancePopulated ==
    \A t \in Slots :
        tasks[t].st = "run" =>
           \A j \in 2..Len(tasks[t].stack) :
              LET conf == Conf(tasks[t].stack[j - 1])
                  doc == tasks[t].stack[j].doc.val
              IN  /\ doc.ID \in Matching(conf.Collection, conf.Query)
                  /\ ToDoc(doc) = db[conf.Collection][doc.ID]

\* C6: a cascade-save goroutine is started, and issues its updates on the
\* target collections, only after the primary upsert of its document succeeded
C6_CascadeAfterUpsert ==
    [][\A t \in Slots :
        /\ (tasks[t].st # "run" /\ tasks'[t].st = "run" /\ tasks'[t].kind = "save")
              => tasks'[t].primary = "committed"
        /\ (Stepped(t) /\ tasks[t].kind = "save" /\ PcOf(t) # "get")
              => tasks[t].primary = "committed"]_vars

\* C7: DeleteDocument starts the cascade-delete goroutine only in a call whose
\* BeforeDelete hook and primary DeleteOne succeeded, the document then being
\* gone from its collection; a call in which either failed returns that error,
\* starts no goroutine (so no cascade delete update is ever issued for it) and
\* leaves the store as it was
C7_DeleteCascadeAfterPrimary ==
    [][/\ \A t \in Slots :
            (tasks[t].st # "run" /\ tasks'[t].st = "run" /\ tasks'[t].kind = "delete")
            => /\ app'.call = "delete"
               /\ app'.ret \in {"nil", "after"}
               /\ tasks'[t].primary = "committed"
               /\ inst[tasks'[t].src].ID \notin DOMAIN db'[CollOf(tasks'[t].src)]
       /\ (calls' # calls /\ app'.call = "delete" /\ app'.ret \in {"before", "store"})
            => tasks' = tasks /\ db' = db]_vars

\* the primary delete of the stored child failed: the child is still stored,
\* its owner still holds the copy, and nothing runs
C7_Witness ==
    /\ app = Returned("delete", "store")
    /\ Quiescent
    /\ inst["child"].ID \in DOMAIN db.children
    /\ db.parents[inst["child"].ParentID].child # Null

\* C8: Save never waits for the goroutine it started: whatever that goroutine
\* has or has not done, each of the remaining steps of Save can be taken, and
\* so can a DeleteDocument call; hence Save returns while related documents
\* still hold the previous data
C8_ReturnsWithoutWaiting ==
    ~crashed =>
        /\ app.pc = "s_id" => ENABLED SaveCheckID
        /\ app.pc = "s_upsert" => ENABLED SaveUpsert
        /\ CanCall => ENABLED DeleteDocument("child")

\* Save of the reassigned child has returned nil while its goroutine is still
\* running: the old owner still holds the copy and the new owner has none
C8_Witness ==
    /\ app = Returned("save", "nil")
    /\ inst["child"].orig.set
    /\ inst["child"].orig.ParentID = 1
    /\ inst["child"].ParentID = 2
    /\ inst["child"].ID \in DOMAIN db.children
    /\ db.children[inst["child"].ID].parentid = 2
    /\ \E t \in Slots : tasks[t].st = "run" /\ tasks[t].src = "child"
    /\ db.parents[1].child = ChildRef(inst["child"])
    /\ db.parents[2].child = Null

\* C9: for a document that does not implement GetCascade the goroutine ends at
\* the type assertion: CascadeSave returns nil, CascadeDelete returns, and no
\* Find or UpdateMany is issued, the store being left as it was
C9_NonCascadingIsNoOp ==
    [][\A t \in Slots :
        (Stepped(t) /\ ~Cascading(DocOf(Top(tasks[t].stack))))
        => /\ PcOf(t) = "get"
           /\ tasks'[t].st = "done"
           /\ tasks'[t].ret = "nil"
           /\ db' = db]_vars

\* a document without GetCascade has been saved and then deleted; both
\* goroutines have ended and no owner was touched
C9_Witness ==
    /\ app = Returned("delete", "nil")
    /\ calls = 2
    /\ Quiescent
    /\ \E t \in Slots : tasks[t].st = "done" /\ tasks[t].ret = "nil"
    /\ inst["hooked"].exists
    /\ inst["hooked"].ID \notin DOMAIN db.tests
    /\ db.parents = InitStore.parents

\* C10: when the final update of the k-th config fails, so that the per-config
\* save returns an error, CascadeSave returns that error at once: the goroutine
\* ends with it, no operation of a later config nor a nested cascade follows,
\* and the store keeps what the configs before the k-th wrote (no rollback)
C10_ErrorStopsCascade ==
    [][\A t \in Slots :
        /\ (Stepped(t) /\ tasks[t].kind = "save" /\ PcOf(t) \in {"new", "push"}
              /\ tasks'[t].last = "fail")
           => /\ tasks'[t].st = "done"
              /\ tasks'[t].ret = "error"
              /\ tasks'[t].stack = <<>>
              /\ db' = db
        /\ (tasks[t].st = "done" /\ tasks'[t].st = "run")
           => tasks'[t].stack = <<Frame([ptr |-> tasks'[t].src])>>]_vars

\* the $push of the second config failed after the first config had been
\* saved: the owner holds the child but neither the entry nor the third config's copy
C10_Witness ==
    \E t \in Slots :
        /\ tasks[t].st = "done" /\ tasks[t].ret = "error" /\ tasks[t].last = "fail"
        /\ \E p \in ParentIDs :
              /\ db.parents[p].child # Null
              /\ db.parents[p].children = <<>>
              /\ db.parents[p].childProp = Null

\* C11: for a config with RemoveOnly, with or without OldQuery, cascade save
\* runs the cleanup only: it never issues the $set of Data (under ThroughProp
\* or at the root) nor the $push of Data on the documents matching Query
C11_RemoveOnlyNeverWrites ==
    [][\A t \in Slots :
        (Stepped(t) /\ tasks[t].kind = "save" /\ PcOf(t) \in {"new", "push"})
        => ~Conf(Top(tasks[t].stack)).RemoveOnly]_vars

\* C12: a config whose RelType is neither REL_ONE nor REL_MANY makes the
\* per-config save return the invalid-relation-type error with no update
\* issued, and CascadeSave returns that error; the per-config delete likewise
\* returns the error and issues no update
C12_InvalidRelType ==
    [][\A t \in Slots :
        (/\ Stepped(t)
         /\ PcOf(t) # "get"
         /\ Conf(Top(tasks[t].stack)).RelType \notin {REL_ONE, REL_MANY})
        => /\ db' = db
           /\ tasks[t].kind = "save" =>
                 /\ PcOf(t) = "bad"
                 /\ tasks'[t].st = "done"
                 /\ tasks'[t].ret = "error"
           /\ tasks[t].kind = "delete" => tasks'[t].last = "fail"]_vars

\* Save of a document whose first config has an invalid RelType: its
\* CascadeSave has returned the error and the owners are as they were
C12_Witness ==
    /\ inst["gen"].confs[1].RelType = RelInvalid
    /\ app = Returned("save", "nil")
    /\ calls = 1
    /\ \E t \in Slots : tasks[t].st = "done" /\ tasks[t].ret = "error"
    /\ db.parents[1].child = GenRef(inst["gen"])
    /\ db.parents[2] = InitStore.parents[2]

\* C13: CascadeDelete discards the error of a config: when the update of a
\* config fails (the store fails, or the RelType is invalid) the store is left
\* as it was, the next config is executed all the same (or, after the last
\* one, CascadeDelete just returns) and nothing reaches the caller
C13_DeleteDiscardsErrors ==
    [][\A t \in Slots :
        (/\ Stepped(t)
         /\ tasks[t].kind = "delete"
         /\ PcOf(t) = "del"
         /\ tasks'[t].last = "fail")
        => LET fr == Top(tasks[t].stack) IN
           /\ db' = db
           /\ app' = app
           /\ crashed' = crashed
           /\ IF fr.k < Len(fr.confs)
              THEN /\ tasks'[t].st = "run"
                   /\ Top(tasks'[t].stack).k = fr.k + 1
                   /\ Top(tasks'[t].stack).pc = "del"
              ELSE /\ tasks'[t].st = "done"
                   /\ tasks'[t].ret = "nil"]_vars

\* the update of the first config has failed, the owner still holds the copy,
\* and CascadeDelete is about to execute the second config
C13_Witness ==
    \E t \in Slots :
        /\ tasks[t].st = "run" /\ tasks[t].kind = "delete"
        /\ tasks[t].last = "fail"
        /\ Top(tasks[t].stack).k = 2 /\ Top(tasks[t].stack).pc = "del"
        /\ Top(tasks[t].stack).confs[1].RelType = REL_ONE
        /\ Top(tasks[t].stack).confs[1].ThroughProp = "child"
        /\ db.parents[2].child = GenRef(inst["gen"])

\* C14: when CascadeDelete has to default an empty ReferenceQuery and cannot
\* resolve the document's identifier, the goroutine ends with a recoverable
\* error: it does not panic, and the process goes on
C14_MissingIdentifierRecoverable ==
    [][\A t \in Slots :
        (/\ Stepped(t)
         /\ tasks[t].kind = "delete"
         /\ PcOf(t) = "del"
         /\ NeedsIdField(Top(tasks[t].stack))
         /\ ~HasField(DocOf(Top(tasks[t].stack)), "Id"))
        => /\ ~crashed'
           /\ tasks'[t].st # "panic"]_vars

\* C15: CascadeDelete never nests: whatever conf.Nest says, the goroutine stays
\* in its one activation, issues no Find, and each of its steps is the single
\* cleanup update of one config, on the documents matching Query
C15_DeleteNeverNests ==
    [][\A t \in Slots :
        (Stepped(t) /\ tasks[t].kind = "delete")
        => /\ tasks'[t].st = "run" =>
                 /\ Len(tasks'[t].stack) = 1
                 /\ Top(tasks'[t].stack).pc = "del"
                 /\ Top(tasks'[t].stack).cur = <<>>
           /\ PcOf(t) = "get" => db' = db
           /\ PcOf(t) = "del" =>
                 LET fr == Top(tasks[t].stack)
                     conf == Conf(fr)
                 IN  /\ db' \in {db, UpdateMany(conf.Collection, conf.Query,
                                     DeleteUpdateOf(conf, DefaultRef(conf, DocOf(fr).ID)))}
                     /\ \/ tasks'[t].st = "done"
                        \/ Top(tasks'[t].stack).k = fr.k + 1]_vars

\* the cleanup of a config with Nest has been applied to the owner that held
\* the copy, and CascadeDelete has moved on to the next config
C15_Witness ==
    \E t \in Slots :
        /\ tasks[t].st = "run" /\ tasks[t].kind = "delete"
        /\ Len(tasks[t].stack) = 1
        /\ Top(tasks[t].stack).k = 2
        /\ Top(tasks[t].stack).confs[1].Nest
        /\ Top(tasks[t].stack).confs[1].RelType = REL_ONE
        /\ Top(tasks[t].stack).confs[1].ThroughProp = "child"
        /\ db.parents[2].child = Null
        /\ db.parents[2].childProp = Str("g")

\* C16: CascadeSave has no cycle detection: when the Nest configs of two types
\* lead into each other and every Query matches a document, no CascadeSave of
\* such a document ever returns: no step ends the goroutine or leaves an
\* activation, and every Find is followed by one more nested CascadeSave
C16_CycleNeverReturns ==
    [][\A t \in Slots :
        Stepped(t)
        => /\ tasks'[t].st = "run"
           /\ Len(tasks'[t].stack) >= Len(tasks[t].stack)
           /\ PcOf(t) = "find" => Len(tasks'[t].stack) = Len(tasks[t].stack) + 1]_vars

\* the cascade of the cyclic document has nested as deep as the model follows it
C16_Witness ==
    \E t \in Slots :
        /\ tasks[t].st = "run"
        /\ Len(tasks[t].stack) = MaxDepth
        /\ DocOf(tasks[t].stack[1]).kind = "CycA"
        /\ DocOf(tasks[t].stack[2]).kind = "CycB"
        /\ DocOf(tasks[t].stack[3]).kind = "CycA"
        /\ Top(tasks[t].stack).pc = "find"

\* C17: once Save of a new child without identifier has returned and no
\* cascade is running any more, the copies the owners hold (the child field and
\* the entries of children) carry the identifier Save assigned to the child,
\* never the zero identifier
C17_CopyCarriesAssignedId ==
    (app.pc = "idle" /\ Quiescent /\ inst["child"].exists)
    => \A p \in ParentIDs :
          /\ db.parents[p].child # Null => db.parents[p].child.ID = inst["child"].ID
          /\ \A j \in 1..Len(db.parents[p].children) :
                db.parents[p].children[j].ID = inst["child"].ID

\* C18: for a REL_ONE config with an empty ThroughProp, the $set of cascade
\* save writes each field of Data at the root of every document matching
\* Query, and the cleanup sets each field named in Properties to null: in the
\* documents matching OldQuery on save, in those matching Query on delete
C18_RootLevelCopy ==
    [][\A t \in Slots :
        (/\ Stepped(t)
         /\ PcOf(t) \in {"old", "new", "del"}
         /\ tasks'[t].last = "ok"
         /\ Conf(Top(tasks[t].stack)).RelType = REL_ONE
         /\ Conf(Top(tasks[t].stack)).ThroughProp = "")
        => LET conf == Conf(Top(tasks[t].stack))
               cleared(q) == \A i \in OwnersAfter(conf, q) :
                                \A f \in Range(conf.Properties) :
                                   FieldOf(i, db'[conf.Collection][i], f) = Null
           IN  /\ PcOf(t) = "new" =>
                     \A i \in OwnersAfter(conf, conf.Query) :
                        \A f \in DOMAIN conf.Data :
                           FieldOf(i, db'[conf.Collection][i], f) = conf.Data[f]
               /\ PcOf(t) = "old" => cleared(conf.OldQuery)
               /\ PcOf(t) = "del" => cleared(conf.Query)]_vars

\* the root-level copy has moved: the old owner's childProp is null, the new
\* owner's childProp holds the value, and the next config is about to run
C18_Witness ==
    \E t \in Slots :
        /\ tasks[t].st = "run" /\ tasks[t].kind = "save"
        /\ Top(tasks[t].stack).k = 2
        /\ Top(tasks[t].stack).confs[1].RelType = REL_ONE
        /\ Top(tasks[t].stack).confs[1].ThroughProp = ""
        /\ Len(Top(tasks[t].stack).confs[1].OldQuery) > 0
        /\ ~Top(tasks[t].stack).confs[1].RemoveOnly
        /\ db.parents[1].childProp = Null
        /\ db.parents[2].childProp = Str("g")

\* the fields of the child a caller may ask the tracker about
ChildFields == {"ParentID", "Name", "ChildProp"}

\* C19: right after Reset() on the child's tracker Modified(field) is false
\* for every field, and it stays false over every step that changes no live
\* field value of the child
C19_ResetClearsModified ==
    [][LET c == inst["child"]
           d == inst'["child"]
       IN  /\ d.orig # c.orig => \A f \in ChildFields : ~Modified(d, f)
           /\ (/\ c.orig.set
               /\ \A f \in ChildFields : ~Modified(c, f)
               /\ \A f \in ChildFields : d[f] = c[f])
              => \A f \in ChildFields : ~Modified(d, f)]_vars

\* the tracker of the saved child has been reset after a reassignment
C19_Witness ==
    /\ inst["child"].orig.set
    /\ inst["child"].exists
    /\ inst["child"].ParentID = 2
    /\ GetOriginalValue(inst["child"], "ParentID").value = 2
    /\ \A f \in ChildFields : ~Modified(inst["child"], f)

\* C20: Reset() captures the live value of the tracked field, and the captured
\* value stays until the next Reset(); Modified is true exactly when the live
\* value differs from the value GetOriginalValue returns; for an untracked
\* field Modified is false and GetOriginalValue reports not-found
C20_ModifiedIffDiffers ==
    [][LET c == inst["child"]
           d == inst'["child"]
       IN  /\ d.orig # c.orig =>
                 GetOriginalValue(d, "ParentID") = [found |-> TRUE, value |-> c.ParentID]
           /\ d.orig = c.orig =>
                 GetOriginalValue(d, "ParentID") = GetOriginalValue(c, "ParentID")
           /\ d.orig.set =>
                 /\ GetOriginalValue(d, "ParentID").found
                 /\ Modified(d, "ParentID")
                       <=> d.ParentID # GetOriginalValue(d, "ParentID").value
           /\ \A f \in ChildFields \ {"ParentID"} :
                 /\ ~Modified(d, f)
                 /\ ~GetOriginalValue(d, f).found]_vars

\* the child was reassigned after Reset(): the tracker reports the change and
\* still returns the owner captured at the Reset()
C20_Witness ==
    /\ inst["child"].orig.set
    /\ inst["child"].ParentID = 2
    /\ Modified(inst["child"], "ParentID")
    /\ GetOriginalValue(inst["child"], "ParentID") = [found |-> TRUE, value |-> 1]
    /\ ~Modified(inst["child"], "Name")

\* the value the result holds for a path: each segment but the last leads
\* through a mapping, the last is the key of the leaf
RECURSIVE LeafAt(_, _)
LeafAt(m, split) ==
    IF Head(split) \notin DOMAIN m THEN [missing |-> TRUE]
    ELSE IF Len(split) = 1 THEN m[Head(split)]
    ELSE IF IsMap(m[Head(split)]) THEN LeafAt(m[Head(split)].map, Tail(split))
    ELSE [missing |-> TRUE]

\* C21: the map MapFromCascadeProperties returns holds, for every path of the
\* list, the resolved field under the path's segments (a top-level key for a
\* path without a dot, nested mappings with the last segment as leaf key
\* otherwise), and its top-level keys are the distinct first segments
C21_PathsBecomeNestedKeys ==
    proj.st = "done" =>
        /\ \A j \in 1..Len(proj.all) :
              LeafAt(proj.data, Split(proj.all[j])) = DotaccessGet(inst["parent"], proj.all[j])
        /\ DOMAIN proj.data = {Head(Split(proj.all[j])) : j \in 1..Len(proj.all)}

\* C22: when an intermediate segment of a path already holds a value that is
\* no mapping, the projection ends with an error result the caller can handle,
\* not with a panic, and the value is not overwritten
C22_ConflictIsErrorResult ==
    [][(Projecting /\ Len(Split(Head(proj.props))) > 1
          /\ NonMapOnPath(proj.data, SubSeq(Split(Head(proj.props)), 1,
                                            Len(Split(Head(proj.props))) - 1)))
       => (proj'.st # "panic" /\ ~crashed' /\ proj'.data = proj.data)]_vars

\* C23: when Validate returns a non-empty error list, Save returns a
\* ValidationError carrying those errors and does nothing else: BeforeSave has
\* not run, no primary write is issued, no cascade goroutine is started and the
\* document stays new
C23_ValidationStopsSave ==
    [][(app.pc = "idle" /\ calls' = calls + 1 /\ app'.call = "save"
          /\ Len(Validate(inst["validated"])) > 0)
       => /\ app'.pc = "idle"
          /\ app'.ret = "validation"
          /\ app'.errs = Validate(inst["validated"])
          /\ inst'["validated"].RanBeforeSave = inst["validated"].RanBeforeSave
          /\ inst'["validated"].exists = inst["validated"].exists
          /\ db' = db
          /\ tasks' = tasks]_vars

\* a first Save of the document without a name has been refused
C23_Witness ==
    /\ app.pc = "idle"
    /\ app.call = "save"
    /\ app.ret = "validation"
    /\ app.errs = <<"name is required">>
    /\ calls = 1
    /\ ~inst["validated"].exists
    /\ ~inst["validated"].RanBeforeSave
    /\ db.tests = <<>>
    /\ Quiescent

\* the instances CascadeSave runs on that are no instance of the application:
\* conf.Instance of an enclosing config
InstancesOf(T) ==
    {T.stack[j].doc.val : j \in {i \in 1..Len(T.stack) : "val" \in DOMAIN T.stack[i].doc}}

\* what holds of the instances handed to Save: the flag turns to persisted
\* only in the step of Save whose upsert stored the document, it is never
\* turned back, a Save that returns nil leaves it persisted, and no step of a
\* cascade changes it
SavedInstances ==
    /\ \A d \in DOMAIN inst :
          /\ (~inst[d].exists /\ inst'[d].exists)
             => /\ app.pc = "s_upsert" /\ app.d = d
                /\ inst[d].ID \in DOMAIN db'[CollOf(d)]
                /\ db'[CollOf(d)][inst[d].ID] = ToDoc(inst[d])
                /\ tasks[app.t].st = "run" => tasks'[app.t].primary = "committed"
          /\ inst[d].exists => inst'[d].exists
    /\ (app.pc # "idle" /\ app'.pc = "idle" /\ app'.call = "save" /\ app'.ret = "nil")
       => inst'[app.d].exists
    /\ \A t \in Slots : Stepped(t) => \A d \in DOMAIN inst : inst'[d].exists = inst[d].exists

C25_RefValidIffExists ==
    [][(app'.call = "validate" /\ app' # app)
       => (app'.ret = "true" <=> app'.arg[1] \in DOMAIN db[app'.arg[2]])]_vars

\* C26: when two cascade saves of the same child have run concurrently (their
\* pull and push on the REL_MANY config interleaved in any order) and both
\* have finished, every owner matching Query holds exactly one entry matching
\* ReferenceQuery in its children array
C26_ConcurrentSavesOneEntry ==
    (/\ app.pc = "idle"
     /\ Quiescent
     /\ Cardinality({t \in Slots : tasks[t].st = "done" /\ tasks[t].ret = "nil"}) >= 2)
    => LET conf == ChildCascade(inst["child"])[2]
           rq == DefaultRef(conf, inst["child"].ID)
       IN  \A i \in Matching(conf.Collection, conf.Query) :
              Cardinality(Entries(db[conf.Collection][i], conf, rq)) = 1

\* C27: the child was reassigned from parent 1 to parent 2 and saved; once
\* Save has returned and every cascade has finished, parent 1 holds no copy of
\* the child any more, at whatever moment after the return of Save the caller
\* has reset the tracker
C27_ResetKeepsCleanup ==
    (/\ calls >= 1
     /\ app.pc = "idle"
     /\ app.ret = "nil"
     /\ Quiescent)
    => /\ db.parents[1].child = Null
       /\ db.parents[1].children = <<>>
       /\ db.parents[1].childProp = Null

\* C28: for a REL_ONE config with a ThroughProp, the update of cascade delete
\* on Query and the cleanup of cascade save on OldQuery leave unchanged every
\* owner whose ThroughProp holds the data of a source document other than the
\* one being deleted or saved
C28_ClearsOnlyOwnCopy ==
    [][\A t \in Slots :
        (/\ Stepped(t)
         /\ PcOf(t) \in {"old", "del"}
         /\ Conf(Top(tasks[t].stack)).RelType = REL_ONE
         /\ Conf(Top(tasks[t].stack)).ThroughProp # "")
        => LET fr == Top(tasks[t].stack)
               conf == Conf(fr)
               owners == db[conf.Collection]
           IN  \A i \in DOMAIN owners :
                  LET held == FieldOf(i, owners[i], conf.ThroughProp) IN
                  (held # Null /\ held.ID # DocOf(fr).ID)
                  => db'[conf.Collection][i] = owners[i]]_vars

\* the fields of an owner a config may write
FieldsOf(conf) ==
    IF conf.ThroughProp # "" THEN {conf.ThroughProp}
    ELSE DOMAIN conf.Data \cup Range(conf.Properties)

\* C29: a step of cascade save or cascade delete that executes an update of a
\* config changes only documents of the config's collection that match Query
\* or OldQuery, and in them only ThroughProp (with no ThroughProp, the root
\* fields named by Data and Properties); no document is added or removed, and
\* every other collection, document and field, the stored source document
\* included, is unchanged; the other steps of a cascade change nothing
C29_FrameOfOneConfig ==
    [][\A t \in Slots :
        Stepped(t) =>
          IF PcOf(t) \in {"old", "pull", "new", "push", "del"}
          THEN LET conf == Conf(Top(tasks[t].stack))
                   coll == conf.Collection
               IN  /\ \A c \in DOMAIN db \ {coll} : db'[c] = db[c]
                   /\ DOMAIN db'[coll] = DOMAIN db[coll]
                   /\ \A i \in DOMAIN db[coll] :
                         /\ ~(\/ Matches(i, db[coll][i], conf.Query)
                              \/ Len(conf.OldQuery) > 0 /\ Matches(i, db[coll][i], conf.OldQuery))
                            => db'[coll][i] = db[coll][i]
                         /\ \A f \in (DOMAIN db[coll][i] \cup DOMAIN db'[coll][i])
                                      \ FieldsOf(conf) :
                               /\ f \in DOMAIN db[coll][i] \cap DOMAIN db'[coll][i]
                               /\ db'[coll][i][f] = db[coll][i][f]
          ELSE db' = db]_vars

\* a save of the generic document has moved its copy from parent 1 to parent
\* 2 under the config's ThroughProp; the rest of both parents and the stored
\* source document are as they were
C29_Witness ==
    /\ Quiescent
    /\ \E t \in Slots : tasks[t].st = "done" /\ tasks[t].ret = "nil"
    /\ Len(inst["gen"].confs[1].OldQuery) > 0
    /\ inst["gen"].confs[1].ThroughProp = "child"
    /\ inst["gen"].confs[1].RelType = REL_ONE
    /\ db.parents[1].child = Null
    /\ db.parents[1].children = <<GenRef(inst["gen"])>>
    /\ db.parents[2].child = GenRef(inst["gen"])
    /\ db.parents[2].children = <<>>
    /\ db.tests[inst["gen"].ID] = ToDoc(inst["gen"])

\* C30: within the save of one config, a store error of the update on
\* OldQuery (RemoveOnly being false) or of the REL_MANY pull on Query does not
\* end the run and is not returned: the next update of the config is issued,
\* and CascadeSave returns an error at the final update on Query exactly when
\* that update failed
C30_CleanupErrorsDropped ==
    [][\A t \in Slots :
        (Stepped(t) /\ tasks[t].kind = "save")
        => LET fr == Top(tasks[t].stack)
               conf == Conf(fr)
               goesOn(pc) == /\ tasks'[t].st = "run"
                             /\ Len(tasks'[t].stack) = Len(tasks[t].stack)
                             /\ Top(tasks'[t].stack).k = fr.k
                             /\ Top(tasks'[t].stack).pc = pc
           IN  /\ (PcOf(t) = "old" /\ ~conf.RemoveOnly)
                  => goesOn(IF conf.RelType = REL_ONE THEN "new" ELSE "pull")
               /\ PcOf(t) = "pull" => goesOn("push")
               /\ PcOf(t) \in {"new", "push"}
                  => ((tasks'[t].st = "done" /\ tasks'[t].ret = "error")
                        <=> tasks'[t].last = "fail")]_vars

\* the cleanup at parent 1 failed, so parent 1 still holds the copy, and the
\* save of the config went on: parent 2 has received the copy and CascadeSave
\* has returned nil
C30_Witness ==
    /\ \A t \in Slots : tasks[t].st \in {"idle", "done"}
    /\ \E t \in Slots : tasks[t].st = "done" /\ tasks[t].ret = "nil"
    /\ calls = 1
    /\ app = Returned("save", "nil")
    /\ Len(inst["gen"].confs[1].OldQuery) > 0
    /\ ~inst["gen"].confs[1].RemoveOnly
    /\ inst["gen"].confs[1].RelType = REL_MANY
    /\ Len(db.parents[1].children) = 1
    /\ Len(db.parents[2].children) = 1

\* the tracker says not new and the identifier is zero
Stale(doc) == doc.exists /\ doc.ID = NilID

\* C31: when Save is called on a document whose tracker says it is not new but
\* whose identifier is zero, Save returns an error and the store stays as it
\* was: no primary write, and no step of the cascade the call started changes
\* any collection.
C31_StaleSaveLeavesStore ==
    [][/\ (app.pc = "s_id" /\ Stale(inst[app.d]) /\ app' # app)
           => (app'.pc = "idle" /\ app'.ret = "id" /\ db' = db)
       /\ \A t \in Slots :
             (Stepped(t) /\ tasks[t].kind = "save" /\ Stale(inst[tasks[t].src]))
                => db' = db]_vars

\* C32: within one config the cleanup on OldQuery is issued before the new
\* write, so a cascade save that runs alone and returns nil leaves, for every
\* config whose OldQuery and Query select the same owner documents, the new
\* Data at each of these owners: ThroughProp (or the root fields) equal to Data
\* for REL_ONE, exactly one entry matching the reference query, equal to Data,
\* for REL_MANY; the embed is never left cleared
C32_SameOwnerKeepsData ==
    [][\A t \in Slots :
        (/\ Stepped(t)
         /\ tasks[t].kind = "save"
         /\ tasks[t].solo
         /\ tasks'[t].st = "done"
         /\ tasks'[t].ret = "nil")
        => LET fr == tasks[t].stack[1]
           IN  \A k \in 1..Len(fr.confs) :
                 LET conf == fr.confs[k]
                     rq == DefaultRef(conf, DocOf(fr).ID)
                 IN  (/\ Len(conf.OldQuery) > 0
                      /\ ~conf.RemoveOnly
                      /\ OwnersAfter(conf, conf.OldQuery) = OwnersAfter(conf, conf.Query))
                     => \A i \in OwnersAfter(conf, conf.Query) :
                           LET owner == db'[conf.Collection][i] IN
                           /\ HoldsCopy(i, owner, conf)
                           /\ ~LostCopy(i, owner, conf, rq)
                           /\ conf.RelType = REL_MANY
                                 => Cardinality(Entries(owner, conf, rq)) = 1]_vars

\* a renamed document whose REL_MANY config names parent 2 in OldQuery and in
\* Query has been saved: the cascade has ended, and the owner's array holds
\* the one entry under the new name in place of the old one
C32_Witness ==
    /\ "gen" \in DOMAIN inst
    /\ inst["gen"].confs[1].RelType = REL_MANY
    /\ inst["gen"].confs[1].OldQuery = inst["gen"].confs[1].Query
    /\ calls = 1
    /\ app = Returned("save", "nil")
    /\ \E t \in Slots : tasks[t].st = "done" /\ tasks[t].ret = "nil"
    /\ db.parents[2].children = <<GenRef(inst["gen"])>>
    /\ StaleRef # GenRef(inst["gen"])

\* the lists that hold the elements of seq in another order
Reorderings(seq) ==
    {[j \in 1..Len(seq) |-> seq[f[j]]] :
        f \in {g \in [1..Len(seq) -> 1..Len(seq)] :
                  \A a, b \in 1..Len(seq) : g[a] = g[b] => a = b}}

\* C33: the result of MapFromCascadeProperties does not depend on the order of
\* the paths: when the call returns normally for a list, it returns normally,
\* with the same nested mapping, for every permutation of the list
C33_OrderIndependent ==
    proj.st = "done" =>
        \A ps \in Reorderings(proj.all) :
            MapFromCascadeProperties(ps, inst["parent"], <<>>) =
                [st |-> "done", data |-> proj.data]

====
